---- MODULE Spec2Model ----
(***************************************************************************)
(* Streaming data pipeline (streaming-data-pipeline.py): a publisher task  *)
(* puts events on a bounded asyncio.Queue, a subscriber task drains the    *)
(* queue with a timeout, buffers the events and hands the buffer to        *)
(* process_batch on a size trigger, a time trigger or a take timeout.      *)
(*                                                                         *)
(* Time is discrete: one tick of `now` is one unit of time.time().  The    *)
(* source's numeric settings are scaled down so that the state space is    *)
(* finite; the value the source uses is given next to each.                *)
(* Floating point values are modelled by exact rationals <<num, den>>.     *)
(* Where a computed value is used several times it is bound once, as the   *)
(* element x of a one-element set {e}, so that it is evaluated only once.  *)
(***************************************************************************)
EXTENDS Integers, Sequences, FiniteSets, TLC

\* ---- settings of the source, scaled ------------------------------------
MAX_WINDOW_SIZE == 3   \* source: 1000 (line 10)
BATCH_SIZE == 3        \* source: 100  (line 12)
MAX_DELAY == 2         \* source: 0.5 seconds (line 13); here in ticks
QUEUE_MAXSIZE == 2     \* source: asyncio.Queue(maxsize=10) (line 108)
CMS_WIDTH == 2         \* source: CountMinSketch(width=1000, ...) (line 18)
CMS_DEPTH == 2         \* source: CountMinSketch(..., depth=5) (line 18)
HLL_P == 1             \* source: HyperLogLog(p=10) (line 17)

\* ---- bounds of the exploration -----------------------------------------
MaxEvents == 4         \* events the publisher creates in one behaviour
MaxTime == 5           \* last tick of the clock
MaxAgg == 5            \* events handed to process_batch when it is driven alone

\* user ids, random.randint(1, 5000): two representatives
UserIds == {123, 5000}

\* <<user_id, value>> of an event of the publisher; the value,
\* random.gauss(50, 10), is a float, here the fraction <<num, den>>
Payloads == {<<123, <<10, 1>>>>, <<5000, <<20, 1>>>>}

VARIABLES
  now,             \* time.time()
  queue,           \* asyncio.Queue contents, oldest first
  pub_pc,          \* publisher: "loop" (lines 30-37), "blocked" (inside put)
  pending,         \* the event of the blocked put
  made,            \* number of events built so far by the publisher
  buffer,          \* subscriber's local list `buffer`
  start,           \* subscriber's local `start`
  waited,          \* ticks since the current wait_for(queue.get()) began
  n, mean, M2,     \* Welford accumulators
  value_window, latency_window,  \* deque(maxlen=MAX_WINDOW_SIZE)
  cms,             \* CountMinSketch counters, cms[row][col]
  hll,             \* HyperLogLog registers, hll[j]
  produced,        \* history: events whose put completed, in order
  batches,         \* history: arguments of the process_batch calls, in order
  folded,          \* history: events folded into the accumulators, in order
  oldest_at,       \* history: append time of buffer[0], -1 if buffer is empty
  last_flush,      \* history: cause, time and oldest_at of the latest flush
  burst,           \* history: takes and flushes of the current burst of takes
  cms_hash,        \* the sketch's hash functions: cms_hash[row][key] is a column
  sub_pc,          \* subscriber: "wait" (line 84), "fold" (inside process_batch)
  todo             \* events of the running process_batch call not yet folded

vars == <<now, queue, pub_pc, pending, made, buffer, start, waited,
          n, mean, M2, value_window, latency_window, cms, hll,
          produced, batches, folded, oldest_at, last_flush, burst,
          cms_hash, sub_pc, todo>>

accs == <<n, mean, M2, value_window, latency_window, cms, hll>>
hist == <<oldest_at, last_flush, burst>>
fixed == <<cms_hash, sub_pc, todo>>

\* ---- exact rationals standing for the floats ---------------------------
Abs(x) == IF x < 0 THEN -x ELSE x

\* greatest common divisor of a >= 0 and b >= 0 (Euclid)
RECURSIVE Gcd(_, _)
Gcd(a, b) ==
  IF b = 0 THEN a ELSE CHOOSE g \in {Gcd(b, r) : r \in {a % b}} : TRUE

\* the fraction a/b (b # 0) in lowest terms with a positive denominator
Rat(a, b) ==
  CHOOSE q \in {<<((IF b < 0 THEN -1 ELSE 1) * a) \div g,
                  ((IF b < 0 THEN -1 ELSE 1) * b) \div g>> :
                g \in {Gcd(Abs(a), Abs(b))}} : TRUE

RInt(k) == <<k, 1>>

RAdd(x, y) ==
  CHOOSE q \in {Rat(p[1] * r[2] + r[1] * p[2], p[2] * r[2]) :
                p \in {x}, r \in {y}} : TRUE

RSub(x, y) ==
  CHOOSE q \in {Rat(p[1] * r[2] - r[1] * p[2], p[2] * r[2]) :
                p \in {x}, r \in {y}} : TRUE

RMul(x, y) ==
  CHOOSE q \in {Rat(p[1] * r[1], p[2] * r[2]) : p \in {x}, r \in {y}} : TRUE

RDivInt(x, k) == CHOOSE q \in {Rat(p[1], p[2] * k) : p \in {x}} : TRUE

\* ---- str(user_id) and the sketches' hashing ----------------------------
\* str(): the decimal digits of a positive integer, most significant first
RECURSIVE Str(_)
Str(k) == IF k < 10 THEN <<k>> ELSE Append(Str(k \div 10), k % 10)

\* a multiplicative string hash folded over the characters, seeded per row
RECURSIVE HashStr(_, _)
HashStr(s, h) ==
  IF s = <<>> THEN h ELSE HashStr(Tail(s), (h * 31 + Head(s) + 1) % 64)

\* the keys the sketch is asked about: str(user_id)
KeyStrs == {Str(u) : u \in UserIds}

\* the hash functions of the model's CountMinSketch, one per row
DefaultCmsHash ==
  [r \in 1..CMS_DEPTH |-> [s \in KeyStrs |-> HashStr(s, r) % CMS_WIDTH]]

CmsCol(row, key) == cms_hash[row][key]

\* an add that counts in the first row only
CmsAdd_onerow(table, key) ==
  [table EXCEPT ![1][CmsCol(1, key)] = @ + 1]

\* CountMinSketch.add: one counter per row is incremented
CmsAdd(table, key) ==
  CHOOSE t1 \in
    {[r \in 1..CMS_DEPTH |->
        [c \in 0..(CMS_WIDTH - 1) |->
           IF c = col[r] THEN table[r][c] + 1 ELSE table[r][c]]] :
     col \in {[r \in 1..CMS_DEPTH |-> CmsCol(r, key)]}} : TRUE

Min(S) == CHOOSE x \in S : \A y \in S : x <= y

CmsCheck(table, key) == Min({table[r][CmsCol(r, key)] : r \in 1..CMS_DEPTH})

\* HyperLogLog.update: register = low p bits, rank = position of the
\* leftmost 1 bit in the remaining HLL_BITS - p bits (all zero: width + 1)
HLL_BITS == 3
Pow2(k) == IF k = 0 THEN 1 ELSE IF k = 1 THEN 2 ELSE IF k = 2 THEN 4
           ELSE IF k = 3 THEN 8 ELSE IF k = 4 THEN 16 ELSE 32
HllM == Pow2(HLL_P)

RECURSIVE BitLength(_)
BitLength(x) == IF x = 0 THEN 0 ELSE 1 + BitLength(x \div 2)

HllHash(key) == HashStr(key, 5) % Pow2(HLL_BITS)

HllRank(bits) == (HLL_BITS - HLL_P) - BitLength(bits) + 1

\* a register that takes the latest rank instead of the largest
HllUpdate_assign(regs, key) ==
  CHOOSE r1 \in
    {[regs EXCEPT ![hv % HllM] = rank] :
     <<hv, rank>> \in {<<h, HllRank(h \div HllM)>> : h \in {HllHash(key)}}} :
    TRUE

\* HyperLogLog.update: the register keeps the largest rank seen
HllUpdate(regs, key) ==
  CHOOSE r1 \in
    {[regs EXCEPT ![hv % HllM] = IF rank > @ THEN rank ELSE @] :
     <<hv, rank>> \in {<<h, HllRank(h \div HllM)>> : h \in {HllHash(key)}}} :
    TRUE

\* ---- deque(maxlen=MAX_WINDOW_SIZE).append -------------------------------
\* a full window that refuses the new item instead of dropping the oldest
DequeAppend_dropnew(w, x) ==
  IF Len(w) >= MAX_WINDOW_SIZE THEN w ELSE Append(w, x)

\* a full deque drops its oldest item
DequeAppend(w, x) ==
  IF Len(w) >= MAX_WINDOW_SIZE THEN Append(Tail(w), x) ELSE Append(w, x)

\* ---- process_batch ------------------------------------------------------
\* an iteration that skips the latency append when the latency is 0
FoldEvent_skipzero(a, event, t) ==
  LET key == Str(event.user_id)
      value == event.value
      latency == t - event.timestamp
      n1 == a.n + 1
  IN  CHOOSE r \in
        {[n |-> n1,
          mean |-> mean1,
          M2 |-> RAdd(a.M2, RMul(delta, RSub(value, mean1))),
          value_window |-> DequeAppend(a.value_window, event.value),
          latency_window |-> IF latency = 0 THEN a.latency_window
                             ELSE DequeAppend(a.latency_window, latency),
          cms |-> CmsAdd(a.cms, key),
          hll |-> HllUpdate(a.hll, key),
          folded |-> Append(a.folded, event)] :
         <<delta, mean1>> \in
           {<<d, RAdd(a.mean, RDivInt(d, n1))>> :
              d \in {RSub(value, a.mean)}}} : TRUE

\* an iteration that adds delta squared to M2
FoldEvent_naive(a, event, t) ==
  LET key == Str(event.user_id)
      value == event.value
      latency == t - event.timestamp
      n1 == a.n + 1
  IN  CHOOSE r \in
        {[n |-> n1,
          mean |-> mean1,
          M2 |-> RAdd(a.M2, RMul(delta, delta)),
          value_window |-> DequeAppend(a.value_window, event.value),
          latency_window |-> DequeAppend(a.latency_window, latency),
          cms |-> CmsAdd(a.cms, key),
          hll |-> HllUpdate(a.hll, key),
          folded |-> Append(a.folded, event)] :
         <<delta, mean1>> \in
           {<<d, RAdd(a.mean, RDivInt(d, n1))>> :
              d \in {RSub(value, a.mean)}}} : TRUE

\* one iteration of the for loop (lines 45-57) on accumulator record a
FoldEvent(a, event, t) ==
  LET key == Str(event.user_id)
      value == event.value
      latency == t - event.timestamp
      n1 == a.n + 1
  IN  CHOOSE r \in
        {[n |-> n1,
          mean |-> mean1,
          M2 |-> RAdd(a.M2, RMul(delta, RSub(value, mean1))),
          value_window |-> DequeAppend(a.value_window, event.value),
          latency_window |-> DequeAppend(a.latency_window, latency),
          cms |-> CmsAdd(a.cms, key),
          hll |-> HllUpdate(a.hll, key),
          folded |-> Append(a.folded, event)] :
         <<delta, mean1>> \in
           {<<d, RAdd(a.mean, RDivInt(d, n1))>> :
              d \in {RSub(value, a.mean)}}} : TRUE

\* the for loop over the batch, in list order
RECURSIVE FoldBatch(_, _, _)
FoldBatch(a, events, t) ==
  IF events = <<>> THEN a
  ELSE CHOOSE r \in {FoldBatch(a1, Tail(events), t) :
                       a1 \in {FoldEvent(a, Head(events), t)}} : TRUE

AccRecord ==
  [n |-> n, mean |-> mean, M2 |-> M2, value_window |-> value_window,
   latency_window |-> latency_window, cms |-> cms, hll |-> hll,
   folded |-> folded]

\* process_batch(events) called at time now
process_batch(events) ==
  /\ \E r \in {FoldBatch(AccRecord, events, now)} :
       /\ n' = r.n
       /\ mean' = r.mean
       /\ M2' = r.M2
       /\ value_window' = r.value_window
       /\ latency_window' = r.latency_window
       /\ cms' = r.cms
       /\ hll' = r.hll
       /\ folded' = r.folded
  /\ batches' = Append(batches, events)

\* line 66: the variance reported in the summary
Variance == IF n > 1 THEN RDivInt(M2, n - 1) ELSE RInt(0)

\* ---- the summary's top buckets (line 64) --------------------------------
TOP_K == 2             \* source: most_common(3)

\* round(v): to the nearest integer, a tie to the even one
Round(x) ==
  LET f == x[1] \div x[2]
      r2 == 2 * (x[1] - f * x[2])
  IN  IF r2 < x[2] THEN f
      ELSE IF r2 > x[2] THEN f + 1
      ELSE IF f % 2 = 0 THEN f ELSE f + 1

\* the keys of Counter(s): the distinct items in the order first seen
RECURSIVE Distinct(_)
Distinct(s) ==
  IF s = <<>> THEN <<>>
  ELSE <<Head(s)>> \o Distinct(SelectSeq(Tail(s), LAMBDA x : x # Head(s)))

\* Counter(s).items(): <<item, count>> pairs in the order first seen
CounterOf(s) ==
  [i \in 1..Len(Distinct(s)) |->
     <<Distinct(s)[i],
       Cardinality({j \in 1..Len(s) : s[j] = Distinct(s)[i]})>>]

\* a sort that puts a pair before the earlier pairs of equal count
StaysBefore_strict(earlier, item) == earlier[2] > item[2]

\* most_common sorts by count, largest first, and is stable: a pair goes
\* behind the pairs of larger or equal count that came before it
StaysBefore(earlier, item) == earlier[2] >= item[2]

RECURSIVE InsertDesc(_, _)
InsertDesc(sorted, item) ==
  IF sorted = <<>> THEN <<item>>
  ELSE IF StaysBefore(Head(sorted), item)
       THEN <<Head(sorted)>> \o InsertDesc(Tail(sorted), item)
       ELSE <<item>> \o sorted

RECURSIVE SortDesc(_)
SortDesc(items) ==
  IF items = <<>> THEN <<>>
  ELSE InsertDesc(SortDesc(SubSeq(items, 1, Len(items) - 1)),
                  items[Len(items)])

\* Counter.most_common(k)
MostCommon(items, k) == SubSeq(SortDesc(items), 1, Min({k, Len(items)}))

\* line 64: [round(v) for v in value_window]
Rounded(w) == [i \in 1..Len(w) |-> Round(w[i])]

\* line 64: top_items
TopItems == MostCommon(CounterOf(Rounded(value_window)), TOP_K)

\* ---- initial state (module level code and main) -------------------------
NoEvent == [id |-> 0, user_id |-> 0, value |-> RInt(0), timestamp |-> 0]

Start ==
  /\ now = 0
  /\ queue = <<>>
  /\ pub_pc = "loop"
  /\ pending = NoEvent
  /\ made = 0
  /\ buffer = <<>>
  /\ start = 0
  /\ waited = 0
  /\ n = 0
  /\ mean = RInt(0)
  /\ M2 = RInt(0)
  /\ value_window = <<>>
  /\ latency_window = <<>>
  /\ cms = [r \in 1..CMS_DEPTH |-> [c \in 0..(CMS_WIDTH - 1) |-> 0]]
  /\ hll = [j \in 0..(HllM - 1) |-> 0]
  /\ produced = <<>>
  /\ batches = <<>>
  /\ folded = <<>>
  /\ oldest_at = -1
  /\ last_flush = [cause |-> "none", at |-> 0, oldest |-> 0]
  /\ burst = [takes |-> 0, flushes |-> 0]
  /\ sub_pc = "wait"
  /\ todo = <<>>

Init == Start /\ cms_hash = DefaultCmsHash

\* ---- publisher ----------------------------------------------------------
\* the clock bound leaves the subscriber MAX_DELAY ticks for the last event
InHorizon == now + MAX_DELAY <= MaxTime

\* lines 31-35: the event the publisher builds at time now
NewEvent(u, v) ==
  [id |-> made + 1, user_id |-> u, value |-> v, timestamp |-> now]

\* Queue.full() variant that lets one event too many in
QueueFull_offbyone(q) == Len(q) > QUEUE_MAXSIZE

\* line 36, Queue.full(): put parks the caller while this holds
QueueFull(q) == Len(q) >= QUEUE_MAXSIZE

\* lines 31-37, queue not full: the event is built and put at once (put does
\* not suspend), then the publisher sleeps; the sleep's length is the number
\* of ticks that pass before its next step
PutNow ==
  /\ pub_pc = "loop"
  /\ made < MaxEvents
  /\ InHorizon
  /\ ~QueueFull(queue)
  /\ \E p \in Payloads :
       /\ queue' = Append(queue, NewEvent(p[1], p[2]))
       /\ produced' = Append(produced, NewEvent(p[1], p[2]))
  /\ made' = made + 1
  /\ UNCHANGED <<now, pub_pc, pending, buffer, start, waited, accs, batches,
                 folded, hist, fixed>>

\* lines 31-36, queue full: the event is built, Queue.put parks the publisher
\* on a putter future
PutBlock ==
  /\ pub_pc = "loop"
  /\ made < MaxEvents
  /\ InHorizon
  /\ QueueFull(queue)
  /\ \E p \in Payloads : pending' = NewEvent(p[1], p[2])
  /\ made' = made + 1
  /\ pub_pc' = "blocked"
  /\ UNCHANGED <<now, queue, buffer, start, waited, accs, produced, batches,
                 folded, hist, fixed>>

\* a put whose wake-up is lost: the parked putter is never resumed
PutResume_lost ==
  /\ FALSE
  /\ UNCHANGED vars

\* line 36: a slot is free again, the parked put completes
PutResume ==
  /\ pub_pc = "blocked"
  /\ InHorizon
  /\ ~QueueFull(queue)
  /\ queue' = Append(queue, pending)
  /\ produced' = Append(produced, pending)
  /\ pending' = NoEvent
  /\ pub_pc' = "loop"
  /\ UNCHANGED <<now, made, buffer, start, waited, accs, batches, folded,
                 hist, fixed>>

\* ---- subscriber ---------------------------------------------------------
\* buffer.insert(0, event) in place of buffer.append(event)
BufferAppend_front(buf, event) == <<event>> \o buf

\* line 85: buffer.append(event)
BufferAppend(buf, event) == Append(buf, event)

\* a size trigger that fires one event late
ShouldFlush_late(buf) == Len(buf) > BATCH_SIZE \/ (now - start) >= MAX_DELAY

\* line 87: the size trigger and the time trigger
ShouldFlush(buf) == Len(buf) >= BATCH_SIZE \/ (now - start) >= MAX_DELAY

\* a flush that forgets `start = time.time()`
Flush_stale(buf, cause, oldest) ==
  /\ process_batch(buf)
  /\ buffer' = <<>>
  /\ start' = start
  /\ oldest_at' = -1
  /\ last_flush' = [cause |-> cause, at |-> now, oldest |-> oldest]

\* lines 88-90 and 93-95: process_batch(buffer); buffer.clear(); start = now
Flush(buf, cause, oldest) ==
  /\ process_batch(buf)
  /\ buffer' = <<>>
  /\ start' = now
  /\ oldest_at' = -1
  /\ last_flush' = [cause |-> cause, at |-> now, oldest |-> oldest]

\* a burst: takes that follow each other with no tick and no timeout in
\* between, the first of them made with an empty buffer
BurstAfterTake(flushed) ==
  LET fresh == burst.takes = 0 \/ burst.takes >= BATCH_SIZE
      f == IF flushed THEN 1 ELSE 0
  IN  IF fresh
      THEN IF buffer = <<>> THEN [takes |-> 1, flushes |-> f]
           ELSE [takes |-> 0, flushes |-> 0]
      ELSE [takes |-> burst.takes + 1, flushes |-> burst.flushes + f]

\* lines 84-90: queue.get() returns an event within the timeout
Take ==
  /\ queue # <<>>
  /\ LET event == Head(queue)
         buf == BufferAppend(buffer, event)
         oldest == IF buffer = <<>> THEN now ELSE oldest_at
     IN  /\ queue' = Tail(queue)
         /\ IF ShouldFlush(buf)
            THEN /\ Flush(buf, "take", oldest)
                 /\ burst' = BurstAfterTake(TRUE)
            ELSE /\ buffer' = buf
                 /\ oldest_at' = oldest
                 /\ burst' = BurstAfterTake(FALSE)
                 /\ UNCHANGED <<start, accs, batches, folded, last_flush>>
  /\ waited' = 0
  /\ UNCHANGED <<now, pub_pc, pending, made, produced, fixed>>

\* a cancelled get that has already removed the head of the queue
CancelledGet_lossy(q) == IF q = <<>> THEN q ELSE Tail(q)

\* line 84: the queue after wait_for cancelled the pending get: nothing was
\* taken from it
CancelledGet(q) == q

\* `except asyncio.TimeoutError: pass`
TimeoutFlushes_never(buf) == FALSE

\* the except branch without its `if buffer:`
TimeoutFlushes_always(buf) == TRUE

\* line 92: `if buffer:`
TimeoutFlushes(buf) == buf # <<>>

\* lines 84 and 91-95: wait_for raised TimeoutError after MAX_DELAY
Timeout ==
  /\ waited >= MAX_DELAY
  /\ queue' = CancelledGet(queue)
  /\ IF TimeoutFlushes(buffer)
     THEN Flush(buffer, "timeout", oldest_at)
     ELSE UNCHANGED <<buffer, start, accs, batches, folded, oldest_at,
                      last_flush>>
  /\ burst' = [takes |-> 0, flushes |-> 0]
  /\ waited' = 0
  /\ UNCHANGED <<now, pub_pc, pending, made, produced, fixed>>

\* ---- time ---------------------------------------------------------------
\* the event loop has a task to run: a put that was parked on a full queue
\* and has been woken by a take
PutterReady == pub_pc = "blocked" /\ ~QueueFull(queue)

\* the clock advances while the event loop is idle: the subscriber is
\* suspended in wait_for, no event is ready for it, its timeout is not yet
\* due and no woken put is waiting to run
Tick ==
  /\ now < MaxTime
  /\ queue = <<>>
  /\ waited < MAX_DELAY
  /\ ~PutterReady
  /\ now' = now + 1
  /\ waited' = waited + 1
  /\ burst' = [takes |-> 0, flushes |-> 0]
  /\ UNCHANGED <<queue, pub_pc, pending, made, buffer, start, accs,
                 produced, batches, folded, oldest_at, last_flush, fixed>>

Next ==
  \/ PutNow
  \/ PutBlock
  \/ PutResume
  \/ Take
  \/ Timeout
  \/ Tick

Spec == Init /\ [][Next]_vars

\* the event loop runs every task that is ready (the subscriber, a woken
\* put) and the clock keeps running; the publisher need not emit again once
\* it sleeps
LiveSpec ==
  Spec /\ WF_vars(Take) /\ WF_vars(Timeout) /\ WF_vars(Tick)
       /\ WF_vars(PutResume)

\* ---- process_batch driven alone -----------------------------------------
\* process_batch is called directly with batches of any length built from a
\* pool of <<user_id, value>> pairs; queue, publisher and subscriber rest.

\* an event with timestamp time.time() joins the next batch
AggEmit(pool) ==
  /\ made < MaxAgg
  /\ \E p \in pool : buffer' = Append(buffer, NewEvent(p[1], p[2]))
  /\ made' = made + 1
  /\ UNCHANGED <<now, queue, pub_pc, pending, start, waited, accs, produced,
                 batches, folded, hist, fixed>>

\* process_batch(batch)
AggProcess ==
  /\ buffer # <<>>
  /\ process_batch(buffer)
  /\ buffer' = <<>>
  /\ UNCHANGED <<now, queue, pub_pc, pending, made, start, waited, produced,
                 hist, fixed>>

\* time.time() is the wall clock: it can be set, also backwards
Clock == {0, 1}

AggClock ==
  /\ \E t \in Clock \ {now} : now' = t
  /\ UNCHANGED <<queue, pub_pc, pending, made, buffer, start, waited, accs,
                 produced, batches, folded, hist, fixed>>

\* keys vary, the sketch's hash functions are arbitrary
KeyPool == {<<u, <<10, 1>>>> : u \in UserIds}
EmitKeys == AggEmit(KeyPool)
AllCmsHashes == [1..CMS_DEPTH -> [KeyStrs -> 0..(CMS_WIDTH - 1)]]
SketchInit == Start /\ cms_hash \in AllCmsHashes
SketchNext == EmitKeys \/ AggProcess
SketchSpec == SketchInit /\ [][SketchNext]_vars

\* values vary: 10, 10.5, 11.5, 30
ValuePool == {<<123, v>> : v \in {<<10, 1>>, <<21, 2>>, <<23, 2>>, <<30, 1>>}}
EmitValues == AggEmit(ValuePool)
WindowNext == EmitValues \/ AggProcess
WindowSpec == Init /\ [][WindowNext]_vars

\* values vary: 10, 20, 30
MomentPool == {<<123, v>> : v \in {<<10, 1>>, <<20, 1>>, <<30, 1>>}}
EmitMoments == AggEmit(MomentPool)
MomentNext == EmitMoments \/ AggProcess
MomentSpec == Init /\ [][MomentNext]_vars

\* the clock varies between the events and the call
ClockPool == {<<123, <<10, 1>>>>}
EmitClocked == AggEmit(ClockPool)
ClockNext == EmitClocked \/ AggProcess \/ AggClock
ClockSpec == Init /\ [][ClockNext]_vars

\* ---- process_batch step by step -----------------------------------------
\* The subscriber's call of process_batch is split into its loop iterations
\* to see what the other tasks can do while it runs.

\* process_batch with an await in its loop: other tasks run during the call
OtherTasksRun_preempt == TRUE

\* process_batch is a plain def called without await (lines 41, 89, 94): the
\* event loop runs another task only while the subscriber is suspended in
\* wait_for (line 84)
OtherTasksRun == sub_pc = "wait"

StepPutNow == OtherTasksRun /\ PutNow
StepPutBlock == OtherTasksRun /\ PutBlock
StepPutResume == OtherTasksRun /\ PutResume
StepTick == OtherTasksRun /\ Tick

\* lines 88 and 93: process_batch(buffer) is entered
EnterBatch(buf) ==
  /\ buffer' = buf
  /\ todo' = buf
  /\ batches' = Append(batches, buf)
  /\ sub_pc' = "fold"

\* lines 84-88: an event is taken; the buffer is flushed or keeps it
StepTake ==
  /\ sub_pc = "wait"
  /\ queue # <<>>
  /\ queue' = Tail(queue)
  /\ IF ShouldFlush(BufferAppend(buffer, Head(queue)))
     THEN EnterBatch(BufferAppend(buffer, Head(queue)))
     ELSE /\ buffer' = BufferAppend(buffer, Head(queue))
          /\ UNCHANGED <<batches, sub_pc, todo>>
  /\ waited' = 0
  /\ UNCHANGED <<now, pub_pc, pending, made, start, accs, produced, folded,
                 hist, cms_hash>>

\* lines 84 and 91-93: the take timed out
StepTimeout ==
  /\ sub_pc = "wait"
  /\ waited >= MAX_DELAY
  /\ queue' = CancelledGet(queue)
  /\ IF TimeoutFlushes(buffer)
     THEN EnterBatch(buffer)
     ELSE UNCHANGED <<buffer, batches, sub_pc, todo>>
  /\ waited' = 0
  /\ UNCHANGED <<now, pub_pc, pending, made, start, accs, produced, folded,
                 hist, cms_hash>>

\* lines 44-57: one iteration of the for loop
StepFold ==
  /\ sub_pc = "fold"
  /\ todo # <<>>
  /\ \E r \in {FoldEvent(AccRecord, Head(todo), now)} :
       /\ n' = r.n
       /\ mean' = r.mean
       /\ M2' = r.M2
       /\ value_window' = r.value_window
       /\ latency_window' = r.latency_window
       /\ cms' = r.cms
       /\ hll' = r.hll
       /\ folded' = r.folded
  /\ todo' = Tail(todo)
  /\ UNCHANGED <<now, queue, pub_pc, pending, made, buffer, start, waited,
                 produced, batches, hist, cms_hash, sub_pc>>

\* lines 59-74 and 89-90 (94-95): the summary is printed and process_batch
\* returns; buffer.clear(); start = time.time()
StepReturn ==
  /\ sub_pc = "fold"
  /\ todo = <<>>
  /\ buffer' = <<>>
  /\ start' = now
  /\ sub_pc' = "wait"
  /\ UNCHANGED <<now, queue, pub_pc, pending, made, waited, accs, produced,
                 batches, folded, hist, cms_hash, todo>>

StepNext ==
  \/ StepPutNow
  \/ StepPutBlock
  \/ StepPutResume
  \/ StepTake
  \/ StepTimeout
  \/ StepFold
  \/ StepReturn
  \/ StepTick

StepSpec == Init /\ [][StepNext]_vars

\* ---- properties ---------------------------------------------------------
RECURSIVE Flatten(_)
Flatten(bs) == IF bs = <<>> THEN <<>> ELSE Head(bs) \o Flatten(Tail(bs))

IsPrefix(s, t) == Len(s) <= Len(t) /\ s = SubSeq(t, 1, Len(s))

Ids(s) == {s[i].id : i \in 1..Len(s)}

Last(s) == s[Len(s)]

\* C1: event conservation. Every event whose put has completed is in exactly
\* one of the queue, the buffer and the events passed to process_batch, so
\* produced = len(queue) + len(buffer) + n; none is dropped and none is
\* passed to process_batch twice.
C1_Conservation ==
  LET done == Flatten(batches)
  IN  /\ Len(produced) = Len(queue) + Len(buffer) + n
      /\ n = Len(done)
      /\ Ids(queue) \cup Ids(buffer) \cup Ids(done) = Ids(produced)
      /\ Cardinality(Ids(queue)) = Len(queue)
      /\ Cardinality(Ids(buffer)) = Len(buffer)
      /\ Cardinality(Ids(done)) = Len(done)
      /\ Ids(queue) \cap Ids(buffer) = {}
      /\ Ids(queue) \cap Ids(done) = {}
      /\ Ids(buffer) \cap Ids(done) = {}
      /\ \A i \in 1..Len(produced) :
           \E s \in {queue, buffer, done} :
             \E j \in 1..Len(s) : s[j] = produced[i]

\* C1 witness: events sit in all three places at once, after the clock has
\* passed the first take deadline
C1_Witness ==
  /\ n > 0 /\ buffer # <<>> /\ queue # <<>>
  /\ now >= MAX_DELAY

\* C2: backpressure. The queue never holds more than QUEUE_MAXSIZE events;
\* a put attempted on a full queue leaves the queue alone and keeps its
\* event, and it completes (enqueuing exactly that event) only once a take
\* has brought the queue below capacity.
C2_Backpressure ==
  /\ [](Len(queue) <= QUEUE_MAXSIZE)
  /\ [](pub_pc = "blocked" =>
          /\ pending.id = made
          /\ pending.id \notin Ids(produced))
  /\ [][/\ (pub_pc = "loop" /\ pub_pc' = "blocked") =>
             (Len(queue) = QUEUE_MAXSIZE /\ queue' = queue
              /\ produced' = produced)
        /\ (pub_pc = "blocked" /\ Len(queue) = QUEUE_MAXSIZE) =>
             (/\ pub_pc' = "blocked" /\ pending' = pending
              /\ produced' = produced
              /\ queue' = queue \/ queue' = Tail(queue))
        /\ (pub_pc = "blocked" /\ pub_pc' # "blocked") =>
             (/\ Len(queue) < QUEUE_MAXSIZE
              /\ queue' = Append(queue, pending)
              /\ produced' = Append(produced, pending))]_vars

\* C2 witness: the publisher is parked in put on a full queue
C2_Witness == pub_pc = "blocked" /\ Len(queue) = QUEUE_MAXSIZE

\* C3: ordering. The events are folded into the accumulators in the order
\* in which their puts completed: the concatenation of the batches passed to
\* process_batch is the sequence of folded events and a prefix of produced.
C3_Ordering ==
  /\ folded = Flatten(batches)
  /\ IsPrefix(Flatten(batches), produced)
  /\ IsPrefix(Flatten(batches) \o buffer \o queue, produced)
  /\ Len(Flatten(batches) \o buffer \o queue) = Len(produced)

\* C3 witness: several batches, one of them with several events, were folded
C3_Witness ==
  /\ Len(batches) >= 2
  /\ \E k \in 1..Len(batches) : Len(batches[k]) >= 2
  /\ Len(folded) = MaxEvents

\* C4: liveness. With a fair subscriber and a clock that keeps running,
\* every event whose put has completed is eventually in a batch passed to
\* process_batch, also when the publisher emits nothing afterwards.
Processed(i) ==
  /\ Len(produced) >= i
  /\ \E k \in 1..Len(batches) :
       \E j \in 1..Len(batches[k]) : batches[k][j] = produced[i]

C4_Liveness ==
  \A i \in 1..MaxEvents : (Len(produced) >= i) ~> Processed(i)

\* C4 witness: a partial buffer was flushed by the timeout path
C4_Witness ==
  /\ last_flush.cause = "timeout"
  /\ batches # <<>> /\ Len(Last(batches)) < BATCH_SIZE
  /\ buffer = <<>> /\ queue = <<>>

\* C5 (as claimed): a flush made right after a successful take with fewer
\* than BATCH_SIZE buffered events happens only if at least MAX_DELAY has
\* elapsed since the oldest buffered event was appended.
C5_Claimed ==
  (/\ last_flush.cause = "take"
   /\ batches # <<>> /\ Len(Last(batches)) < BATCH_SIZE)
  => last_flush.at - last_flush.oldest >= MAX_DELAY

\* C6 (as claimed): no event stays in the subscriber's buffer for longer than
\* MAX_DELAY after the buffer's first item was appended.
C6_Claimed ==
  /\ buffer # <<>> => now - oldest_at <= MAX_DELAY
  /\ last_flush.cause # "none" => last_flush.at - last_flush.oldest <= MAX_DELAY

\* C7 (as claimed): BATCH_SIZE takes in a row with no delay between them,
\* the first on an empty buffer, make exactly one flush, of exactly those
\* BATCH_SIZE events, however long the subscriber idled before.
C7_Claimed ==
  burst.takes = BATCH_SIZE =>
    /\ burst.flushes = 1
    /\ buffer = <<>>
    /\ batches # <<>> /\ Len(Last(batches)) = BATCH_SIZE

\* C8: timeout flush. A take that times out on a non-empty buffer makes one
\* process_batch call with the whole buffer as its batch, empties the buffer
\* and resets start; one event followed by silence longer than MAX_DELAY
\* is flushed exactly once, alone.
TimeoutStep == waited >= MAX_DELAY /\ waited' = 0 /\ Len(queue') = Len(queue)

C8_TimeoutFlush ==
  /\ [][(TimeoutStep /\ buffer # <<>>) =>
          /\ batches' = Append(batches, buffer)
          /\ n' = n + Len(buffer)
          /\ buffer' = <<>>
          /\ start' = now]_vars
  /\ [](/\ made = 1 /\ Len(produced) = 1
        /\ now > produced[1].timestamp + MAX_DELAY
        => batches = <<produced>>)

\* C8 witness: one event, then silence longer than MAX_DELAY, and the
\* timeout path flushed it
C8_Witness ==
  /\ made = 1 /\ Len(produced) = 1
  /\ now > produced[1].timestamp + MAX_DELAY
  /\ last_flush.cause = "timeout"
  /\ start = last_flush.at

\* C9: batch sizes. Every batch passed to process_batch holds between 1 and
\* BATCH_SIZE events, and the buffer of the waiting subscriber holds fewer
\* than BATCH_SIZE events.
C9_BatchSize ==
  /\ \A k \in 1..Len(batches) :
       Len(batches[k]) >= 1 /\ Len(batches[k]) <= BATCH_SIZE
  /\ Len(buffer) < BATCH_SIZE

\* C9 witness: a full batch and a single-event batch were both passed on
C9_Witness ==
  /\ \E k \in 1..Len(batches) : Len(batches[k]) = BATCH_SIZE
  /\ \E k \in 1..Len(batches) : Len(batches[k]) = 1

\* C10: empty timeout. A take that times out on an empty buffer calls
\* process_batch zero times and changes neither the buffer, the queue nor
\* any accumulator.
C10_EmptyTimeoutFrame ==
  [][(TimeoutStep /\ buffer = <<>> /\ queue' = queue) =>
       UNCHANGED <<buffer, queue, batches, folded, n, mean, M2,
                   value_window, latency_window, cms, hll>>]_vars

\* C10 witness: after some events were folded, a take timed out on an empty
\* buffer (nothing was taken or flushed for MAX_DELAY ticks)
C10_Witness ==
  /\ n > 0 /\ buffer = <<>> /\ queue = <<>>
  /\ waited = 0
  /\ now - last_flush.at >= 2 * MAX_DELAY
  /\ Len(produced) = n

\* the number of folded events whose key is str(u)
CountOf(u) == Cardinality({i \in 1..Len(folded) : folded[i].user_id = u})

\* C11: Count-Min Sketch one-sided error. Whatever the hash functions and
\* the order of the keys, the estimate for a key is never below the number
\* of times that key was added.
C11_OneSided == \A u \in UserIds : CmsCheck(cms, Str(u)) >= CountOf(u)

\* C11 witness: both keys were added, one of them twice, and hash collisions
\* in every row make the estimate of a key exceed its true count
C11_Witness ==
  /\ \A u \in UserIds : CountOf(u) > 0
  /\ \E u \in UserIds : CountOf(u) >= 2
  /\ \E u \in UserIds : CmsCheck(cms, Str(u)) > CountOf(u)
  /\ cms_hash # DefaultCmsHash

\* the last k items of a sequence (all of it when it is shorter)
LastN(s, k) == IF Len(s) <= k THEN s ELSE SubSeq(s, Len(s) - k + 1, Len(s))

Values(s) == [i \in 1..Len(s) |-> s[i].value]

\* C12: bounded window. After k values were pushed, the window of capacity
\* MAX_WINDOW_SIZE holds exactly the last min(k, MAX_WINDOW_SIZE) of them,
\* in push order.
C12_BoundedWindow ==
  /\ Len(value_window) = Min({Len(folded), MAX_WINDOW_SIZE})
  /\ value_window = LastN(Values(folded), MAX_WINDOW_SIZE)

\* C12 witness: one value more than the capacity was pushed, and the oldest
\* one, which differs from all later ones, is gone from the window
C12_Witness ==
  /\ Len(folded) = MAX_WINDOW_SIZE + 1
  /\ \A i \in 2..Len(folded) : folded[i].value # folded[1].value
  /\ \E i \in 2..Len(folded) : folded[i].value # folded[2].value
  /\ value_window = Tail(Values(folded))

RECURSIVE RSum(_)
RSum(s) ==
  IF s = <<>> THEN RInt(0)
  ELSE CHOOSE q \in {RAdd(h, r) : h \in {Head(s)}, r \in {RSum(Tail(s))}} : TRUE

\* the arithmetic mean of a non-empty sequence of values
MeanOf(s) == RDivInt(RSum(s), Len(s))

\* the sum of the squared deviations of the values from m
SumSqDev(s, m) ==
  RSum([i \in 1..Len(s) |->
          CHOOSE q \in {RMul(d, d) : d \in {RSub(s[i], m)}} : TRUE])

\* C13: running moments. After k values were folded, in whatever batches,
\* n = k, mean is their arithmetic mean (0 before the first), and the
\* reported variance is the sample variance, the sum of the squared
\* deviations from the mean over n - 1, when n > 1 and 0 otherwise.
C13_Moments ==
  LET xs == Values(folded)
  IN  /\ n = Len(xs)
      /\ mean = (IF n = 0 THEN RInt(0) ELSE MeanOf(xs))
      /\ Variance = (IF n > 1 THEN RDivInt(SumSqDev(xs, MeanOf(xs)), n - 1)
                               ELSE RInt(0))

\* C13 witness: 10, 20, 30 were folded in more than one batch, giving mean
\* 20 and variance 100
C13_Witness ==
  /\ Values(folded) = <<RInt(10), RInt(20), RInt(30)>>
  /\ Len(batches) >= 2
  /\ mean = RInt(20)
  /\ Variance = RInt(100)

\* C14: clock anomalies. Every latency in the latency window is >= 0: a
\* negative time.time() - event.timestamp is clamped to 0 before it is
\* pushed.
C14_Claimed == \A i \in 1..Len(latency_window) : latency_window[i] >= 0

\* C15: aggregation atomicity. process_batch is entered only when no call of
\* it is active; between its start and its end no put and no take changes
\* the queue, the publisher does not move and the clock does not advance;
\* the accumulators change only inside the subscriber's call.
C15_Atomicity ==
  /\ [](sub_pc = "wait" => (todo = <<>> /\ folded = Flatten(batches)))
  /\ [](sub_pc = "fold" =>
          (batches # <<>> /\ Last(batches) = buffer
           /\ folded \o todo = Flatten(batches)))
  /\ [][/\ batches' # batches => sub_pc = "wait"
        /\ sub_pc = "fold" =>
             UNCHANGED <<queue, produced, pub_pc, pending, made, now>>
        /\ <<accs, folded>>' # <<accs, folded>> =>
             (sub_pc = "fold" /\ sub_pc' = "fold"
              /\ folded' = Append(folded, Head(todo)))]_vars

\* C15 witness: process_batch is half way through a batch while the queue
\* holds an event and the publisher is free to put another
C15_Witness ==
  /\ sub_pc = "fold"
  /\ todo # <<>> /\ Len(todo) < Len(buffer)
  /\ queue # <<>>
  /\ pub_pc = "loop" /\ made < MaxEvents /\ InHorizon

\* the HyperLogLog register and rank of user u's key
HllReg(u) == HllHash(Str(u)) % HllM
HllRankOf(u) == HllRank(HllHash(Str(u)) \div HllM)

\* C16: the accumulators are cumulative. n never decreases and grows by
\* exactly the length of each batch passed to process_batch; no sketch
\* counter and no HyperLogLog register ever decreases; an accumulator that
\* has left its initial value never returns to it.
C16_Cumulative ==
  [][/\ n' >= n
     /\ batches' # batches =>
          (Len(batches') = Len(batches) + 1
           /\ n' = n + Len(Last(batches')))
     /\ batches' = batches => n' = n
     /\ \A r \in 1..CMS_DEPTH : \A c \in 0..(CMS_WIDTH - 1) :
          cms'[r][c] >= cms[r][c]
     /\ \A j \in 0..(HllM - 1) : hll'[j] >= hll[j]
     /\ n # 0 => n' # 0
     /\ value_window # <<>> => value_window' # <<>>
     /\ latency_window # <<>> => latency_window' # <<>>
     /\ (\E r \in 1..CMS_DEPTH : \E c \in 0..(CMS_WIDTH - 1) :
           cms[r][c] # 0) =>
        (\E r \in 1..CMS_DEPTH : \E c \in 0..(CMS_WIDTH - 1) :
           cms'[r][c] # 0)
     /\ (\E j \in 0..(HllM - 1) : hll[j] # 0) =>
        (\E j \in 0..(HllM - 1) : hll'[j] # 0)]_vars

\* C16 witness: after several flushes a key was folded whose rank is below
\* the value its register already had from an earlier key
C16_Witness ==
  /\ Len(batches) >= 2
  /\ n = Len(Flatten(batches))
  /\ \E i \in 1..Len(folded) : \E j \in (i + 1)..Len(folded) :
       /\ HllReg(folded[i].user_id) = HllReg(folded[j].user_id)
       /\ HllRankOf(folded[j].user_id) < HllRankOf(folded[i].user_id)
       /\ hll[HllReg(folded[j].user_id)] >= HllRankOf(folded[i].user_id)

\* the number of window values in bucket b, and where b is first seen
BucketCount(b) ==
  Cardinality({i \in 1..Len(value_window) : Round(value_window[i]) = b})
FirstSeen(b) ==
  Min({i \in 1..Len(value_window) : Round(value_window[i]) = b})
WindowBuckets == {Round(value_window[i]) : i \in 1..Len(value_window)}

\* C18: top buckets. The reported list holds the (at most) TOP_K buckets of
\* rounded values with the highest counts among the values now in the value
\* window, each with its count in the window, in non-increasing count
\* order; buckets of equal count come in the order of their first
\* occurrence in the window.
C18_TopBuckets ==
  LET t == TopItems
      In(b) == \E i \in 1..Len(t) : t[i][1] = b
  IN  /\ Len(t) = Min({TOP_K, Cardinality(WindowBuckets)})
      /\ \A i \in 1..Len(t) :
           /\ t[i][1] \in WindowBuckets
           /\ t[i][2] = BucketCount(t[i][1])
      /\ \A i \in 1..Len(t) : \A j \in (i + 1)..Len(t) :
           /\ t[i][1] # t[j][1]
           /\ t[i][2] >= t[j][2]
           /\ t[i][2] = t[j][2] => FirstSeen(t[i][1]) < FirstSeen(t[j][1])
      /\ \A b \in WindowBuckets : ~In(b) =>
           \A i \in 1..Len(t) :
             /\ BucketCount(b) <= t[i][2]
             /\ BucketCount(b) = t[i][2] => FirstSeen(t[i][1]) < FirstSeen(b)

\* the number of values of the whole history in bucket b
HistoryCount(b) ==
  Cardinality({i \in 1..Len(folded) : Round(folded[i].value) = b})

\* C18 witness: the window holds more buckets than are reported, all with
\* the same count; the bucket left out is the most frequent one of the whole
\* history, and two different values fell into it
C18_Witness ==
  /\ Cardinality(WindowBuckets) > TOP_K
  /\ Len(TopItems) = TOP_K
  /\ TopItems[1][2] = TopItems[TOP_K][2]
  /\ \E i \in 1..Len(folded) : \E j \in 1..Len(folded) :
       /\ folded[i].value # folded[j].value
       /\ Round(folded[i].value) = Round(folded[j].value)
       /\ Round(folded[i].value) \in WindowBuckets
       /\ \A k \in 1..Len(TopItems) :
            /\ TopItems[k][1] # Round(folded[i].value)
            /\ HistoryCount(TopItems[k][1]) < HistoryCount(Round(folded[i].value))

\* the latencies of a batch folded at time t
Latencies(events, t) == [i \in 1..Len(events) |-> t - events[i].timestamp]

\* C19: the two windows run in step. Both always have the length
\* min(n, MAX_WINDOW_SIZE), the value window holds the values of the last
\* events folded, and a flush pushes the latencies of the same events, in
\* the same order, onto the latency window: the i-th entries of the two
\* windows stem from the same event.
C19_WindowsInStep ==
  /\ [](/\ Len(value_window) = Min({n, MAX_WINDOW_SIZE})
        /\ Len(latency_window) = Min({n, MAX_WINDOW_SIZE})
        /\ value_window = LastN(Values(folded), MAX_WINDOW_SIZE))
  /\ [][batches' # batches =>
          /\ folded' = folded \o Last(batches')
          /\ latency_window' =
               LastN(latency_window \o Latencies(Last(batches'), now),
                     MAX_WINDOW_SIZE)]_vars

\* C19 witness: more events than the windows hold were folded in several
\* flushes, and the windows hold different values and different latencies
C19_Witness ==
  /\ n > MAX_WINDOW_SIZE
  /\ Len(batches) >= 2
  /\ \E i \in 1..Len(value_window) : value_window[i] # value_window[1]
  /\ \E i \in 1..Len(latency_window) : latency_window[i] # latency_window[1]

\* the subscriber can make a step: an event is there to take, or its take
\* is about to time out, or time can pass until it does
SubscriberCanStep == ENABLED Take \/ ENABLED Timeout \/ ENABLED Tick

\* C20: no deadlock and no producer starvation. Whenever the publisher is
\* parked in put on a full queue the subscriber can take an event, and
\* every put that parks on a full queue eventually completes: its event is
\* enqueued.
C20_NoStarvation ==
  /\ []((pub_pc = "blocked" /\ QueueFull(queue)) =>
          (SubscriberCanStep /\ ENABLED Take))
  /\ \A i \in 1..MaxEvents :
       (pub_pc = "blocked" /\ pending.id = i) ~>
         (pub_pc = "loop" /\ i \in Ids(produced))

\* C20 witness: a put is parked, the subscriber has taken an event from the
\* full queue, and the parked event can now be enqueued
C20_Witness ==
  /\ pub_pc = "blocked"
  /\ Len(queue) = QUEUE_MAXSIZE - 1
  /\ pending.id \notin Ids(produced)
  /\ buffer # <<>> \/ n > 0
  /\ ENABLED PutResume

====
